---------------------------- MODULE Spec2Model ----------------------------
(***************************************************************************)
(* Model of scripts/get-cordova-plugins-names.js: the run of main(), from  *)
(* the synchronous inventory read, through the concurrent npm lookups      *)
(* joined by Promise.all, to the reconciler and the final report.          *)
(*                                                                         *)
(* A JavaScript string is modelled as a sequence of atoms: the atom "@"    *)
(* is the character '@', every other atom is a piece of text that holds no *)
(* '@'.  Concatenation of strings is concatenation of sequences.  A        *)
(* JavaScript value is a record [t, s]: t is "string", "null" or           *)
(* "undefined" and s is the text of a string.                              *)
(***************************************************************************)
EXTENDS Integers, Sequences, FiniteSets, TLC

VARIABLES
    cordovaPlugins,   \* ROOT/package.json: the cordovaPlugins list (line 75)
    disk,             \* plugins/<folder>/{plugin.xml,package.json}, per folder
    registry,         \* what npmview answers for a package name
    pc,               \* position of main(): "start", "running", "crashed"
    allPluginsInfo,   \* the records built by readPluginInfoFromDisk
    completed,        \* the lookups whose npmview callback has run, in order
    mapped,           \* state of each promise of allPromisesToNpm (line 216)
    allValues,        \* Promise.all's array of values, one slot per promise
    all,              \* state of the Promise.all promise (line 225)
    chain,            \* progress of the then/catch chain of main (231-247)
    error,            \* the rejection reason travelling down the chain
    table,            \* the rows returned by postProcessPluginsInfo
    calls,            \* how many times postProcessPluginsInfo was invoked
    stdout,           \* lines written by console.log, in order
    stderr            \* chunks written to process.stderr, in order

vars == <<cordovaPlugins, disk, registry, pc, allPluginsInfo, completed, mapped,
          allValues, all, chain, error, table, calls, stdout, stderr>>

-----------------------------------------------------------------------------
(* Bounds of the model. *)

\* pipeline specification: at most this many declared plugins
MaxPlugins == 2
\* reconciler specification: at most this many records
MaxRecords == 2
\* parsing specification: declarations of at most this many atoms
MaxLen == 4

-----------------------------------------------------------------------------
(* JavaScript values. *)

Null == [t |-> "null", s |-> <<>>]
Undefined == [t |-> "undefined", s |-> <<>>]
Str(s) == [t |-> "string", s |-> s]

\* ToBoolean: null, undefined and '' are falsy, every other string is truthy
Truthy(v) == v.t = "string" /\ v.s /= <<>>

\* a || b
Or(a, b) == IF Truthy(a) THEN a ELSE b

\* the text '+' concatenates for a value: 'null' and 'undefined' for those
ToText(v) == IF v.t = "string" THEN v.s ELSE <<v.t>>

-----------------------------------------------------------------------------
(* String.prototype.indexOf('@') and String.prototype.split('@'). *)

At == "@"

HasAt(s) == \E i \in 1..Len(s) : s[i] = At

\* position of the first '@' at or after position from, Len(s)+1 if none
RECURSIVE NextAt(_, _)
NextAt(s, from) ==
    IF from > Len(s) THEN Len(s) + 1
    ELSE IF s[from] = At THEN from
    ELSE NextAt(s, from + 1)

\* s.split('@'): the pieces between the '@', all of them
RECURSIVE SplitFrom(_, _)
SplitFrom(s, from) ==
    LET p == NextAt(s, from)
        piece == SubSeq(s, from, p - 1)
    IN  IF p > Len(s) THEN <<piece>>
        ELSE <<piece>> \o SplitFrom(s, p + 1)

SplitAt(s) == SplitFrom(s, 1)

\* arr[k] of a JavaScript array of strings (k counted from 0)
Item(arr, k) == IF k + 1 <= Len(arr) THEN Str(arr[k + 1]) ELSE Undefined

-----------------------------------------------------------------------------
(* The semver package, as far as the script calls it (lines 170-181).  A   *)
(* version is valid when its text is one atom of SemVerTable; a range is   *)
(* valid when its text is one atom of RangeTable (a plain version is the   *)
(* range holding that version alone, '^1.0.0' is >=1.0.0 <2.0.0).          *)

SemVerTable ==
    ("1.0.0" :> <<1, 0, 0>>) @@ ("1.2.0" :> <<1, 2, 0>>) @@
    ("2.0.0" :> <<2, 0, 0>>) @@ ("2.5.0" :> <<2, 5, 0>>) @@
    ("10.0.0" :> <<10, 0, 0>>)

\* new SemVer(v) does not throw
ValidVersion(v) == v.t = "string" /\ Len(v.s) = 1 /\ v.s[1] \in DOMAIN SemVerTable

SemVer(v) == SemVerTable[v.s[1]]

\* SemVer.prototype.compare: major, then minor, then patch, as numbers
VLess(a, b) ==
    \/ a[1] < b[1]
    \/ a[1] = b[1] /\ a[2] < b[2]
    \/ a[1] = b[1] /\ a[2] = b[2] /\ a[3] < b[3]

\* a range: the versions v with min <= v and (v < max, or v = max when maxIncl)
RangeTable ==
    [a \in DOMAIN SemVerTable |->
        [min |-> SemVerTable[a], max |-> SemVerTable[a], maxIncl |-> TRUE]]
    @@ ("^1.0.0" :> [min |-> <<1, 0, 0>>, max |-> <<2, 0, 0>>, maxIncl |-> FALSE])
    @@ ("^2.0.0" :> [min |-> <<2, 0, 0>>, max |-> <<3, 0, 0>>, maxIncl |-> FALSE])

\* new Range(r) does not throw
ValidRange(r) == r.t = "string" /\ Len(r.s) = 1 /\ r.s[1] \in DOMAIN RangeTable

Range(r) == RangeTable[r.s[1]]

\* semver.gt(a, b) and semver.lt(a, b): both throw on an invalid version
GtThrows(a, b) == ~ValidVersion(a) \/ ~ValidVersion(b)
Gt(a, b) == VLess(SemVer(b), SemVer(a))
Lt(a, b) == VLess(SemVer(a), SemVer(b))

\* semver.gtr(v, r) and semver.ltr(v, r): outside(v, r, '>') and outside(v, r, '<');
\* they throw on an invalid version or an invalid range
GtrThrows(v, r) == ~ValidVersion(v) \/ ~ValidRange(r)
Gtr(v, r) ==
    LET x == SemVer(v)
        g == Range(r)
    IN  IF g.maxIncl THEN VLess(g.max, x) ELSE ~VLess(x, g.max)
Ltr(v, r) == VLess(SemVer(v), Range(r).min)

-----------------------------------------------------------------------------
(* readPluginInfoFromDisk (lines 72-123) and its helpers (38-61). *)

\* a declaration of the cordovaPlugins list: a string, or an object
StringDecl(s) ==
    [kind |-> "string", text |-> Str(s),
     locator |-> Undefined, id |-> Undefined, version |-> Undefined]
ObjectDecl(locator, id, version) ==
    [kind |-> "object", text |-> Undefined,
     locator |-> locator, id |-> id, version |-> version]

\* a file of a plugin folder
NoFile == [exists |-> FALSE, malformed |-> FALSE, version |-> Undefined]
File(v) == [exists |-> TRUE, malformed |-> FALSE, version |-> v]
MalformedFile == [exists |-> TRUE, malformed |-> TRUE, version |-> Undefined]

NoFolder == [xml |-> NoFile, json |-> NoFile]

\* what is under plugins/<folder>
Folder(d, folder) == IF folder \in DOMAIN d THEN d[folder] ELSE NoFolder

\* lines 38-45: null when the file is absent; require() throws on malformed JSON
GetVersionFromJSONThrows(f) == f.exists /\ f.malformed
GetVersionFromJSON(f) == IF f.exists THEN f.version ELSE Null

\* lines 51-61: null when the file is absent; cheerio does not throw
GetVersionFromXML(f) == IF f.exists THEN f.version ELSE Null

\* lines 78-91
PluginNameAndVersion(pluginInfo) ==
    IF pluginInfo.kind = "object"
    THEN IF Truthy(pluginInfo.locator) /\ HasAt(pluginInfo.locator.s)
         THEN pluginInfo.locator.s
         ELSE ToText(pluginInfo.id) \o <<At>> \o ToText(Or(pluginInfo.version, Str(<<>>)))
    ELSE pluginInfo.text.s

\* line 93
PluginName(pluginInfo) == Item(SplitAt(PluginNameAndVersion(pluginInfo)), 0)

\* line 94
PluginExpectedVersion(pluginInfo) == Item(SplitAt(PluginNameAndVersion(pluginInfo)), 1)

\* line 98
PluginFolder(pluginInfo) ==
    IF Truthy(pluginInfo.id) THEN pluginInfo.id ELSE PluginName(pluginInfo)

\* mutant: the versions are read without the test of line 112
ReadsVersionsAlways(d, pluginInfo) == TRUE

\* line 112: is the manifest read at all
ReadsVersions(d, pluginInfo) == Folder(d, PluginFolder(pluginInfo).s).xml.exists

\* lines 103-117, for one declaration
CurrentPluginInfo(d, pluginInfo) ==
    LET dir == Folder(d, PluginFolder(pluginInfo).s)
        found == ReadsVersions(d, pluginInfo)
    IN  [pluginName |-> PluginName(pluginInfo),
         pluginFolder |-> PluginFolder(pluginInfo),
         expectedVersion |-> PluginExpectedVersion(pluginInfo),
         installedVersionJson |-> IF found THEN GetVersionFromJSON(dir.json) ELSE Null,
         installedVersionXml |-> IF found THEN GetVersionFromXML(dir.xml) ELSE Null,
         newestVersion |-> Null]

\* line 115 throws for this declaration
CurrentPluginInfoThrows(d, pluginInfo) ==
    /\ ReadsVersions(d, pluginInfo)
    /\ GetVersionFromJSONThrows(Folder(d, PluginFolder(pluginInfo).s).json)

\* lines 72-123: the records, in declaration order, unless a manifest is malformed
ReadPluginInfoFromDiskThrows(plugins, d) ==
    \E i \in 1..Len(plugins) : CurrentPluginInfoThrows(d, plugins[i])

ReadPluginInfoFromDisk(plugins, d) ==
    [i \in 1..Len(plugins) |-> CurrentPluginInfo(d, plugins[i])]

-----------------------------------------------------------------------------
(* postProcessPluginsInfo (lines 129-209).  A cell of the table is a text  *)
(* and the cli-color style it was wrapped in.                              *)

Plain(s) == [text |-> s, style |-> "plain"]
\* clc.green.bold
GreenBold(s) == [text |-> s, style |-> "green"]
\* clc.red.bold
RedBold(s) == [text |-> s, style |-> "red"]

Dash == Plain(<<"-">>)

\* x || '-' of lines 188-190, for a value that was not styled
CellOf(v) == IF Truthy(v) THEN Plain(v.s) ELSE Dash

\* line 148
VersionsDiffer(info) ==
    /\ Truthy(info.installedVersionJson)
    /\ Truthy(info.installedVersionXml)
    /\ info.installedVersionJson /= info.installedVersionXml

\* lines 149-150
Warning1(info) ==
    [kind |-> "version-mismatch",
     text |-> info.pluginName.s \o <<": version in package.json(">> \o
              info.installedVersionJson.s \o <<") does not match plugin.xml(">> \o
              info.installedVersionXml.s \o <<"), assuming version in package.json.">>]

\* line 155
NamesDiffer(info) == info.pluginName /= info.pluginFolder

\* lines 156-158
Warning2(info) ==
    [kind |-> "name-mismatch",
     text |-> info.pluginName.s \o
              <<": plugin npm name does not match its id from plugin.xml (">> \o
              ToText(info.pluginFolder) \o <<")!">>]

\* lines 148-163: what one record pushes on warnings
WarningsOf(info) ==
    (IF VersionsDiffer(info) THEN <<Warning1(info)>> ELSE <<>>) \o
    (IF NamesDiffer(info) THEN <<Warning2(info)>> ELSE <<>>)

\* lines 143, 162: the first cell of the row
NameCell(info) ==
    IF NamesDiffer(info)
    THEN Plain(info.pluginName.s \o <<" (">> \o ToText(info.pluginFolder) \o <<")">>)
    ELSE Plain(info.pluginName.s)

\* mutant: the descriptor version is preferred
InstalledXmlFirst(info) == Or(info.installedVersionXml, info.installedVersionJson)

\* line 165
Installed(info) == Or(info.installedVersionJson, info.installedVersionXml)

\* lines 169-176 and 178-184: a call of semver throws
RowThrows(info) ==
    \/ /\ Truthy(info.newestVersion) /\ Truthy(Installed(info))
       /\ GtThrows(info.newestVersion, Installed(info))
    \/ /\ Truthy(info.expectedVersion) /\ Truthy(Installed(info))
       /\ GtrThrows(Installed(info), info.expectedVersion)

\* lines 169-176, 190
NewestCell(info) ==
    IF Truthy(info.newestVersion) /\ Truthy(Installed(info))
    THEN IF Gt(info.newestVersion, Installed(info)) THEN GreenBold(info.newestVersion.s)
         ELSE IF Lt(info.newestVersion, Installed(info)) THEN RedBold(info.newestVersion.s)
         ELSE Plain(info.newestVersion.s)
    ELSE CellOf(info.newestVersion)

\* line 179 is reached and true
InstalledAboveRange(info) ==
    /\ Truthy(info.expectedVersion) /\ Truthy(Installed(info))
    /\ Gtr(Installed(info), info.expectedVersion)

\* line 181 is reached and true
InstalledBelowRange(info) ==
    /\ Truthy(info.expectedVersion) /\ Truthy(Installed(info))
    /\ ~Gtr(Installed(info), info.expectedVersion)
    /\ Ltr(Installed(info), info.expectedVersion)

\* mutant: the installed cell is marked whenever installed is outside the range
InstalledCellMarkedOutside(info) ==
    IF InstalledAboveRange(info) \/ InstalledBelowRange(info)
    THEN RedBold(Installed(info).s)
    ELSE CellOf(Installed(info))

\* lines 178-180, 189
InstalledCell(info) ==
    IF InstalledAboveRange(info) THEN RedBold(Installed(info).s)
    ELSE CellOf(Installed(info))

\* lines 181-182, 188
ExpectedCell(info) ==
    IF InstalledBelowRange(info) THEN RedBold(info.expectedVersion.s)
    ELSE CellOf(info.expectedVersion)

\* lines 186-191
Row(info) == <<NameCell(info), ExpectedCell(info), InstalledCell(info), NewestCell(info)>>

RECURSIVE AllWarnings(_, _)
AllWarnings(infos, i) ==
    IF i > Len(infos) THEN <<>>
    ELSE WarningsOf(infos[i]) \o AllWarnings(infos, i + 1)

\* the forEach of lines 142-192 throws on some record
PostProcessThrows(infos) == \E i \in 1..Len(infos) : RowThrows(infos[i])

\* the table returned at line 208
PostProcessTable(infos) == [i \in 1..Len(infos) |-> Row(infos[i])]

Line(kind, text) == [kind |-> kind, text |-> text]

Blank == Line("blank", <<>>)

\* lines 200-206
Notices ==
    <<Line("notice", <<"Note: if a plugin installed version was not detected, its id might differ from npm package name.">>),
      Line("notice", <<"In this case, you need to specify the plugin entry in package.json as">>),
      Line("notice", <<"  {locator: \"npmname", At, "version\", id: \"plugin.id.from.configxml\"}">>),
      Line("notice", <<"for the plugin to be properly detected.">>),
      Line("notice", <<"Consider sending a PR to the plugin's maintainer to fix any issues.">>)>>

\* what postProcessPluginsInfo writes with console.log: the blank line of 131,
\* then, unless the loop threw, the warnings (194-198) and the notices
PostProcessOutput(infos) ==
    IF PostProcessThrows(infos) THEN <<Blank>>
    ELSE <<Blank>> \o AllWarnings(infos, 1) \o Notices

-----------------------------------------------------------------------------
(* getNewestVersionsInfoFromNpm (lines 214-226) and main (228-248). *)

N == Len(cordovaPlugins)

\* an answer of npmview: the latest version, or an error
Found(v) == [ok |-> TRUE, value |-> Str(<<v>>)]
Failure == [ok |-> FALSE, value |-> Undefined]

\* the answer to the lookup issued for record i (lines 217-218)
Answer(i) == registry[allPluginsInfo[i].pluginName.s]

Replied(i) == \E k \in 1..Len(completed) : completed[k] = i

\* state of the promise npmViewPromise(pluginName) of record i
NpmView(i) ==
    IF ~Replied(i) THEN "pending"
    ELSE IF Answer(i).ok THEN "fulfilled" ELSE "rejected"

\* mutant: the values are kept in the order in which they arrive
StoreResultInArrivalOrder(values, i, v) ==
    LET free == {k \in DOMAIN values : values[k] = Null}
        first == CHOOSE k \in free : \A j \in free : k <= j
    IN  [values EXCEPT ![first] = v]

\* Promise.all keeps the value of promise i in slot i of its array
StoreResult(values, i, v) == [values EXCEPT ![i] = v]

\* mutant: a join that waits for every promise and then is fulfilled
JoinStateWhenAllSettled(m, cur) ==
    IF cur /= "pending" THEN cur
    ELSE IF \A i \in DOMAIN m : m[i] /= "pending" THEN "fulfilled"
    ELSE "pending"

\* mutant: a join settled by the first promise to settle, as Promise.race
JoinStateFirstSettled(m, cur) ==
    IF cur /= "pending" THEN cur
    ELSE IF \E i \in DOMAIN m : m[i] = "rejected" THEN "rejected"
    ELSE IF \E i \in DOMAIN m : m[i] = "fulfilled" THEN "fulfilled"
    ELSE IF DOMAIN m = {} THEN "fulfilled"
    ELSE "pending"

\* Promise.all: rejected by the first rejection, fulfilled when every promise is
JoinState(m, cur) ==
    IF cur /= "pending" THEN cur
    ELSE IF \E i \in DOMAIN m : m[i] = "rejected" THEN "rejected"
    ELSE IF \A i \in DOMAIN m : m[i] = "fulfilled" THEN "fulfilled"
    ELSE "pending"

\* lines 233-235
Augmented(infos, newestVersionsArr) ==
    [idx \in 1..Len(infos) |->
        [infos[idx] EXCEPT !.newestVersion = newestVersionsArr[idx]]]

\* what the runtime writes for an exception nobody caught
Uncaught == "SyntaxError: Unexpected token in JSON (uncaught, with its stack)"
NpmError(i) == <<"Error: npm view failed for ">> \o allPluginsInfo[i].pluginName.s
SemverError == <<"TypeError: Invalid Version or comparator">>

\* main(), lines 229-231, with the calls it makes: readPluginInfoFromDisk, which
\* may throw out of main, then getNewestVersionsInfoFromNpm, which issues every
\* lookup and joins them
Main ==
    /\ pc = "start"
    /\ IF ReadPluginInfoFromDiskThrows(cordovaPlugins, disk)
       THEN /\ pc' = "crashed"
            /\ stderr' = Append(stderr, Uncaught)
            /\ UNCHANGED <<allPluginsInfo, mapped, allValues, all>>
       ELSE /\ pc' = "running"
            /\ allPluginsInfo' = ReadPluginInfoFromDisk(cordovaPlugins, disk)
            /\ stderr' = Append(stderr, "fetching info from npm")
            /\ mapped' = [i \in 1..N |-> "pending"]
            /\ allValues' = [i \in 1..N |-> Null]
            /\ all' = JoinState(mapped', "pending")
    /\ UNCHANGED <<cordovaPlugins, disk, registry, completed, chain, error, table,
                   calls, stdout>>

\* the callback of npmview for record i: its promise is settled
NpmViewReply(i) ==
    /\ pc = "running"
    /\ NpmView(i) = "pending"
    /\ completed' = Append(completed, i)
    /\ UNCHANGED <<cordovaPlugins, disk, registry, pc, allPluginsInfo, mapped,
                   allValues, all, chain, error, table, calls, stdout, stderr>>

\* mutant: the progress character is written for a failed lookup too
WritesProgressAlways(state) == TRUE

\* is the progress character written for a lookup that ended so
WritesProgress(state) == state = "fulfilled"

\* lines 218-221: the handler of a lookup that succeeded writes the progress
\* character and hands the value to Promise.all
OnFulfilled(i) ==
    /\ pc = "running"
    /\ NpmView(i) = "fulfilled"
    /\ mapped[i] = "pending"
    /\ stderr' = IF WritesProgress("fulfilled") THEN Append(stderr, ".") ELSE stderr
    /\ mapped' = [mapped EXCEPT ![i] = "fulfilled"]
    /\ allValues' = StoreResult(allValues, i, Answer(i).value)
    /\ all' = JoinState(mapped', all)
    /\ UNCHANGED <<cordovaPlugins, disk, registry, pc, allPluginsInfo, completed,
                   chain, error, table, calls, stdout>>

\* line 218 has no rejection handler: the rejection of a lookup that failed
\* passes to its promise of allPromisesToNpm and from there to Promise.all
OnRejected(i) ==
    /\ pc = "running"
    /\ NpmView(i) = "rejected"
    /\ mapped[i] = "pending"
    /\ stderr' = IF WritesProgress("rejected") THEN Append(stderr, ".") ELSE stderr
    /\ mapped' = [mapped EXCEPT ![i] = "rejected"]
    /\ all' = JoinState(mapped', all)
    /\ error' = IF all = "pending" /\ all' = "rejected" THEN NpmError(i) ELSE error
    /\ UNCHANGED <<cordovaPlugins, disk, registry, pc, allPluginsInfo, completed,
                   allValues, chain, table, calls, stdout>>

\* lines 231-236
Augment ==
    /\ pc = "running"
    /\ chain = "waiting"
    /\ all = "fulfilled"
    /\ allPluginsInfo' = Augmented(allPluginsInfo, allValues)
    /\ chain' = "augmented"
    /\ UNCHANGED <<cordovaPlugins, disk, registry, pc, completed, mapped, allValues,
                   all, error, table, calls, stdout, stderr>>

\* lines 237-238: the reconciler; an error it throws rejects the chain
Reconcile ==
    /\ pc = "running"
    /\ chain = "augmented"
    /\ calls' = calls + 1
    /\ stdout' = stdout \o PostProcessOutput(allPluginsInfo)
    /\ IF PostProcessThrows(allPluginsInfo)
       THEN /\ chain' = "rejected"
            /\ error' = SemverError
            /\ UNCHANGED table
       ELSE /\ chain' = "reconciled"
            /\ table' = PostProcessTable(allPluginsInfo)
            /\ UNCHANGED error
    /\ UNCHANGED <<cordovaPlugins, disk, registry, pc, allPluginsInfo, completed,
                   mapped, allValues, all, stderr>>

\* lines 239-242
PrintTable ==
    /\ pc = "running"
    /\ chain = "reconciled"
    /\ stdout' = stdout \o <<Blank, Line("table", <<>>)>>
    /\ chain' = "printed"
    /\ UNCHANGED <<cordovaPlugins, disk, registry, pc, allPluginsInfo, completed,
                   mapped, allValues, all, error, table, calls, stderr>>

\* the rejection has reached the catch of line 243
ChainRejected == (chain = "waiting" /\ all = "rejected") \/ chain = "rejected"

\* lines 243-247
CatchHandler ==
    /\ pc = "running"
    /\ ChainRejected
    /\ stdout' = stdout \o <<Blank, Line("error", error), Line("stack", error)>>
    /\ chain' = "reported"
    /\ UNCHANGED <<cordovaPlugins, disk, registry, pc, allPluginsInfo, completed,
                   mapped, allValues, all, error, table, calls, stderr>>

Next ==
    \/ Main
    \/ \E i \in 1..N : NpmViewReply(i)
    \/ \E i \in 1..N : OnFulfilled(i)
    \/ \E i \in 1..N : OnRejected(i)
    \/ Augment
    \/ Reconcile
    \/ PrintTable
    \/ CatchHandler

-----------------------------------------------------------------------------
(* The runs that are checked. *)

SeqsUpTo(S, n) == UNION {[1..k -> S] : k \in 0..n}

FoldersOf(plugins) == {PluginFolder(plugins[i]).s : i \in 1..Len(plugins)}
NamesOf(plugins) == {PluginName(plugins[i]).s : i \in 1..Len(plugins)}

\* before main() is called
Fresh ==
    /\ pc = "start"
    /\ allPluginsInfo = <<>>
    /\ completed = <<>>
    /\ mapped = <<>>
    /\ allValues = <<>>
    /\ all = "pending"
    /\ chain = "waiting"
    /\ error = <<>>
    /\ table = <<>>
    /\ calls = 0
    /\ stdout = <<>>
    /\ stderr = <<>>

DeclFoo == StringDecl(<<"foo", At, "1.0.0">>)
DeclBar == ObjectDecl(Str(<<"bar", At, "2.0.0">>), Str(<<"bar-id">>), Undefined)
DeclGit == ObjectDecl(Str(<<"https://github.com/x/foo#ref">>), Str(<<"foo">>), Undefined)

PipelineDeclarations == {DeclFoo, DeclBar, DeclGit}
PipelineFolders ==
    [xml : {NoFile, File(Str(<<"2.0.0">>))},
     json : {NoFile, MalformedFile, File(Str(<<"1.0.0">>)), File(Str(<<"2.5.0">>)),
             File(Str(<<"dev">>))}]
PipelineAnswers == {Failure, Found("1.2.0"), Found("2.5.0")}

\* the whole run, over every project of up to MaxPlugins declared plugins
Init ==
    /\ cordovaPlugins \in SeqsUpTo(PipelineDeclarations, MaxPlugins)
    /\ disk \in [FoldersOf(cordovaPlugins) -> PipelineFolders]
    /\ registry \in [NamesOf(cordovaPlugins) -> PipelineAnswers]
    /\ Fresh

Spec == Init /\ [][Next]_vars

\* the reconciler alone: the same run, the replies arriving one at a time in
\* declaration order, over projects whose versions are more varied
InOrderReply(i) ==
    /\ pc = "running"
    /\ \A j \in 1..(i - 1) : mapped[j] /= "pending"
    /\ NpmViewReply(i)

NextRecords ==
    \/ Main
    \/ \E i \in 1..N : InOrderReply(i)
    \/ \E i \in 1..N : OnFulfilled(i)
    \/ Augment
    \/ Reconcile
    \/ PrintTable
    \/ CatchHandler

RecordDeclarations ==
    {StringDecl(<<"foo">>), StringDecl(<<"foo", At, "1.0.0">>),
     StringDecl(<<"foo", At, "^2.0.0">>), DeclBar}
RecordFolders ==
    [xml : {NoFile, File(Undefined), File(Str(<<"2.0.0">>))},
     json : {NoFile, File(Str(<<"1.0.0">>)), File(Str(<<"2.5.0">>)), File(Str(<<"dev">>))}]
RecordAnswers == {Found("1.2.0"), Found("10.0.0")}

InitRecords ==
    /\ cordovaPlugins \in SeqsUpTo(RecordDeclarations, MaxRecords)
    /\ disk \in [FoldersOf(cordovaPlugins) -> RecordFolders]
    /\ registry \in [NamesOf(cordovaPlugins) -> RecordAnswers]
    /\ Fresh

SpecRecords == InitRecords /\ [][NextRecords]_vars

\* the inventory reader alone, on one declaration of any text of up to MaxLen
\* atoms, with nothing installed
Alphabet == {At, "a", "1"}
Texts == SeqsUpTo(Alphabet, MaxLen)

ParseDeclarations ==
    {StringDecl(s) : s \in Texts} \cup
    {ObjectDecl(Str(s), id, version) :
        s \in Texts, id \in {Undefined, Str(<<"id">>)},
        version \in {Undefined, Str(<<"9">>)}}

InitParse ==
    /\ cordovaPlugins \in [1..1 -> ParseDeclarations]
    /\ disk = <<>>
    /\ registry \in [NamesOf(cordovaPlugins) -> {Found("1.0.0")}]
    /\ Fresh

NextParse == Main

SpecParse == InitParse /\ [][NextParse]_vars

-----------------------------------------------------------------------------
(* Properties of the whole run (Spec). *)

\* the lines of a kind written to stdout, in order
Lines(kinds) ==
    LET OfKind(l) == l.kind \in kinds
    IN  SelectSeq(stdout, OfKind)

WarningKinds == {"version-mismatch", "name-mismatch"}

\* the answer of the registry to the lookup of declaration i
AnswerFor(i) == registry[PluginName(cordovaPlugins[i]).s]

SomeLookupFails == \E k \in 1..N : ~AnswerFor(k).ok
AllLookupsSucceed == \A k \in 1..N : AnswerFor(k).ok

\* the progress characters written so far
ProgressCount ==
    LET IsDot(c) == c = "."
    IN  Len(SelectSeq(stderr, IsDot))

\* C1: in a run where some registry lookup fails, the reconciler is never
\* invoked and no table, warning line or notice is ever printed, whatever the
\* other lookups do and in whatever order they complete.
C1_FailedLookupNeverReconciles ==
    SomeLookupFails =>
        /\ calls = 0
        /\ chain \notin {"augmented", "reconciled", "printed"}
        /\ table = <<>>
        /\ Lines({"table", "notice"} \cup WarningKinds) = <<>>

\* C1 witness: the failure was reported although another lookup succeeded
C1_Witness ==
    /\ chain = "reported"
    /\ N = 2
    /\ \E k, j \in 1..N : NpmView(k) = "rejected" /\ mapped[j] = "fulfilled"
    /\ calls = 0

\* C2: when every lookup succeeds, the reconciler is invoked once at most, once
\* when the run has ended, with one record per declaration in declaration
\* order, record i holding the answer to the lookup of its own display name,
\* in whatever order the lookups complete.
C2_RecordsInOrderWithOwnResult ==
    AllLookupsSucceed =>
        /\ calls <= 1
        /\ chain \in {"printed", "reported"} => calls = 1
        /\ calls = 1 =>
            /\ Len(allPluginsInfo) = N
            /\ \A i \in 1..N :
                /\ allPluginsInfo[i].pluginName = PluginName(cordovaPlugins[i])
                /\ allPluginsInfo[i].newestVersion = AnswerFor(i).value

\* C2 witness: two lookups with different answers, completed in reverse order
C2_Witness ==
    /\ chain = "printed"
    /\ N = 2
    /\ completed = <<2, 1>>
    /\ AnswerFor(1).value /= AnswerFor(2).value
    /\ calls = 1

\* C3: every fatal failure, the malformed manifest met by the inventory read
\* as well as the failed lookup, ends with a blank line, the error and its
\* stack on stdout, and no table.
C3_EveryFatalFailureIsReported ==
    (pc = "crashed" \/ chain = "reported") =>
        /\ Len(stdout) >= 3
        /\ SubSeq(stdout, Len(stdout) - 2, Len(stdout)) =
               <<Blank, Line("error", error), Line("stack", error)>>
        /\ Lines({"table"}) = <<>>

\* the project of the end-to-end scenario
ScenarioDisk ==
    (<<"foo">> :> [xml |-> NoFile, json |-> File(Str(<<"1.0.0">>))]) @@
    (<<"bar-id">> :> [xml |-> File(Str(<<"2.0.0">>)), json |-> File(Str(<<"2.5.0">>))])
ScenarioRegistry == (<<"foo">> :> Found("1.2.0")) @@ (<<"bar">> :> Found("2.5.0"))
Scenario ==
    /\ cordovaPlugins = <<DeclFoo, DeclBar>>
    /\ disk = ScenarioDisk
    /\ registry = ScenarioRegistry

ScenarioWarnings ==
    <<Line("version-mismatch",
           <<"bar", ": version in package.json(", "2.5.0",
             ") does not match plugin.xml(", "2.0.0",
             "), assuming version in package.json.">>),
      Line("name-mismatch",
           <<"bar", ": plugin npm name does not match its id from plugin.xml (",
             "bar-id", ")!">>)>>

\* C4 as stated: the scenario prints foo | 1.0.0 | 1.0.0 | 1.2.0 (newer) and
\* bar (bar-id) | 2.0.0 | 2.5.0 | 2.5.0, with the two warnings for bar.
C4_ScenarioAsStated ==
    (Scenario /\ chain = "printed") =>
        /\ table =
            << <<Plain(<<"foo">>), Plain(<<"1.0.0">>), Plain(<<"1.0.0">>),
                 GreenBold(<<"1.2.0">>)>>,
               <<Plain(<<"bar", " (", "bar-id", ")">>), Plain(<<"2.0.0">>),
                 Plain(<<"2.5.0">>), Plain(<<"2.5.0">>)>> >>
        /\ Lines(WarningKinds) = ScenarioWarnings

\* C4 amended: the scenario prints foo | 1.0.0 | - | 1.2.0 with no emphasis
\* (plugins/foo/plugin.xml is absent, so the manifest of foo is not read) and
\* bar (bar-id) | 2.0.0 | 2.5.0 | 2.5.0 with the installed cell emphasised as a
\* constraint violation, with exactly the two warnings for bar.
C4_ScenarioAmended ==
    (Scenario /\ pc /= "start") =>
        /\ pc = "running"
        /\ chain \notin {"rejected", "reported"}
        /\ chain = "printed" =>
            /\ table =
                << <<Plain(<<"foo">>), Plain(<<"1.0.0">>), Dash, Plain(<<"1.2.0">>)>>,
                   <<Plain(<<"bar", " (", "bar-id", ")">>), Plain(<<"2.0.0">>),
                     RedBold(<<"2.5.0">>), Plain(<<"2.5.0">>)>> >>
            /\ Lines(WarningKinds) = ScenarioWarnings

\* C4 witness: the scenario has run to its table
C4_Witness == Scenario /\ chain = "printed" /\ Len(table) = 2

\* C8 as stated: the join is settled only when every lookup has completed.
C8_JoinWaitsForEveryLookup ==
    all /= "pending" => \A i \in 1..N : NpmView(i) /= "pending"

\* C8 amended: the join is fulfilled only when every lookup has succeeded and
\* its value was handed over; it is rejected only when some lookup has failed,
\* and then without waiting for the lookups still pending; the chain moves on
\* only when the join is settled.
C8_JoinAllOrFirstFailure ==
    /\ all = "fulfilled" =>
           \A i \in 1..N : NpmView(i) = "fulfilled" /\ mapped[i] = "fulfilled"
    /\ all = "rejected" => \E i \in 1..N : NpmView(i) = "rejected"
    /\ chain /= "waiting" => all /= "pending"

\* C8 witness: the failure was reported while a lookup was still pending
C8_Witness ==
    /\ all = "rejected"
    /\ chain = "reported"
    /\ \E j \in 1..N : NpmView(j) = "pending"

\* C9 as stated: once the join is settled there are as many progress
\* characters as completed lookups, and none is written after the failure
\* report or the table.
C9_ProgressPerCompletedLookup ==
    /\ all /= "pending" => ProgressCount = Len(completed)
    /\ chain \in {"printed", "reported"} =>
           \A i \in 1..N : mapped[i] = "pending" => NpmView(i) = "rejected"

\* C9 amended: a lookup that succeeds writes one progress character when its
\* success is handled, a lookup that fails writes none; when the join is
\* fulfilled there are N of them, so none is written after the table.
C9_ProgressPerSuccess ==
    /\ ProgressCount = Cardinality({i \in DOMAIN mapped : mapped[i] = "fulfilled"})
    /\ all = "fulfilled" => ProgressCount = N
    /\ chain = "printed" =>
           ProgressCount = N /\ \A i \in 1..N : mapped[i] = "fulfilled"

\* C9 witness: a failure was reported, one lookup wrote its character, the
\* failed one wrote none
C9_Witness ==
    /\ chain = "reported"
    /\ Len(completed) = 2
    /\ \A i \in 1..N : mapped[i] /= "pending"
    /\ ProgressCount = 1

-----------------------------------------------------------------------------
(* Properties of the reconciler (SpecRecords). *)

\* postProcessPluginsInfo has returned its table
Reconciled == chain \in {"reconciled", "printed"}

Records == 1..Len(allPluginsInfo)

\* the records whose manifest and descriptor versions are both there and differ
Differing ==
    {i \in Records :
        /\ Truthy(allPluginsInfo[i].installedVersionJson)
        /\ Truthy(allPluginsInfo[i].installedVersionXml)
        /\ allPluginsInfo[i].installedVersionJson /= allPluginsInfo[i].installedVersionXml}

C7_ReconcilerNeverRaises ==
    calls >= 1 =>
        /\ chain \in {"reconciled", "printed"}
        /\ Len(table) = Len(allPluginsInfo)

\* the installed version shown: the manifest's if there, else the descriptor's
Shown(i) ==
    IF Truthy(allPluginsInfo[i].installedVersionJson)
    THEN allPluginsInfo[i].installedVersionJson
    ELSE allPluginsInfo[i].installedVersionXml

\* the records that have an expected range and an installed version
Constrained ==
    {i \in Records : Truthy(allPluginsInfo[i].expectedVersion) /\ Truthy(Shown(i))}

Above(i) ==
    LET x == SemVer(Shown(i))
        g == Range(allPluginsInfo[i].expectedVersion)
    IN  VLess(g.max, x) \/ (~g.maxIncl /\ x = g.max)

Below(i) == VLess(SemVer(Shown(i)), Range(allPluginsInfo[i].expectedVersion).min)

\* C10 as stated: installed outside the expected range marks both the
\* installed and the expected cell; installed inside marks neither.
C10_BothCellsMarked ==
    Reconciled =>
        \A i \in Constrained :
            IF Above(i) \/ Below(i)
            THEN table[i][2].style = "red" /\ table[i][3].style = "red"
            ELSE table[i][2].style = "plain" /\ table[i][3].style = "plain"

\* C10 amended: installed above the expected range marks the installed cell
\* alone, installed below it marks the expected cell alone, installed inside
\* it marks neither.
C10_OneCellMarked ==
    Reconciled =>
        \A i \in Constrained :
            /\ table[i][3].style = (IF Above(i) THEN "red" ELSE "plain")
            /\ table[i][2].style = (IF Below(i) THEN "red" ELSE "plain")

\* C10 witness: one row above its range and one row below
C10_Witness ==
    /\ Reconciled
    /\ \E i, j \in Constrained :
           /\ Above(i) /\ table[i][3].style = "red"
           /\ Below(j) /\ table[j][2].style = "red"

-----------------------------------------------------------------------------
(* Properties of the inventory reader (SpecParse). *)

\* the text that is split: the string, or the locator of an object
Declared ==
    IF cordovaPlugins[1].kind = "string"
    THEN cordovaPlugins[1].text.s
    ELSE cordovaPlugins[1].locator.s

\* C5: for a string, and for an object whose locator holds an '@', the name is
\* the text before the first '@' and the expected version is all the text
\* after the first '@', absent when there is no '@'.
C5_SplitOnFirstAt ==
    (pc = "running" /\ (cordovaPlugins[1].kind = "string" \/ HasAt(Declared))) =>
        LET p == NextAt(Declared, 1)
        IN  /\ allPluginsInfo[1].pluginName = Str(SubSeq(Declared, 1, p - 1))
            /\ allPluginsInfo[1].expectedVersion =
                   (IF p > Len(Declared) THEN Undefined
                    ELSE Str(SubSeq(Declared, p + 1, Len(Declared))))

=============================================================================
